---- MODULE Spec2Model ----
(***************************************************************************)
(* Authorization core of fund_ops_admin: the static Permission Matrix,    *)
(* the access guards (RoleChecker, OrganizationRoleChecker), the Role      *)
(* Resolver (enrich_mapping_with_role), the role routes and the            *)
(* user-organization routes over the MongoRepository collections.          *)
(*                                                                         *)
(* A request handler is one atomic action; the assign handler is also      *)
(* modelled in two steps, for requests that overlap.  `resp` holds the     *)
(* response of the last request.  Documents are records; Python's None is  *)
(* the value None, an absent key of a partial update is an absent field.   *)
(* The timestamps created_at / updated_at / joined_at are not modelled.    *)
(***************************************************************************)
EXTENDS Naturals, Sequences, FiniteSets, TLC

VARIABLES
    users,               \* collection "users": id -> [is_superuser]
    organizations,       \* collection "organizations": the ids it holds
    roles,               \* collection "roles": id -> role document
    user_organizations,  \* collection "user_organizations": id -> mapping document
    next_role_oid,       \* number of the next ObjectId of collection "roles"
    next_mapping_oid,    \* number of the next ObjectId of "user_organizations"
    hp,                  \* the has_permission call: [role, permission, result]
    resp,                \* the response of the last request
    unique_index,        \* "user_organizations" has the unique index on
                         \* (user_id, organization_id) that seed_data.py creates
    in_flight,           \* requests that have passed their checks and have not
                         \* yet written: the documents assign requests will
                         \* create, the role ids delete_role requests will delete
    allowed_before       \* history: the (user, organization, allow-list) of the
                         \* requests OrganizationRoleChecker has let through

vars == <<users, organizations, roles, user_organizations, next_role_oid, next_mapping_oid,
          hp, resp, unique_index, in_flight, allowed_before>>

(***************************************************************************)
(* Bounds                                                                  *)
(***************************************************************************)
\* ObjectIds the "roles" collection can hand out in one run.
MaxRoleOid == 4
\* ObjectIds the "user_organizations" collection can hand out in one run.
MaxMappingOid == 2
\* Assign requests that can be between their checks and their write at a time.
MaxInFlight == 2

(***************************************************************************)
(* Values                                                                  *)
(***************************************************************************)
\* Python's None.
None == "<None>"
\* A value Python treats as false in `if v:` (None or the empty string).
Falsy(v) == v = None \/ v = ""

\* str(ObjectId) of the n-th document of a collection.
RoleOid(n) == "r" \o ToString(n)
MappingOid(n) == "m" \o ToString(n)

\* str.lower() on the strings of the model.
lower(s) ==
    CASE s = "Admin" -> "admin"
      [] s = "Custom" -> "custom"
      [] s = "CFO" -> "cfo"
      [] OTHER -> s

(***************************************************************************)
(* schemas.py: RoleEnum and ROLE_PERMISSIONS                               *)
(***************************************************************************)
SUPER_ADMIN == "super_admin"

RoleEnum ==
    { "super_admin", "fund_accountant", "fund_administrator", "cfo",
      "general_partner", "investor", "external_auditor", "legal_compliance",
      "admin", "manager", "member", "viewer" }

PermissionNames ==
    { "can_manage_organizations", "can_manage_users", "can_manage_funds",
      "can_view_all_data", "can_manage_investors", "can_manage_properties",
      "can_view_financials", "can_approve_transactions" }

\* One entry of the matrix: every permission name is a key, true for `granted`.
PermissionMap(granted) == [p \in PermissionNames |-> p \in granted]

ROLE_PERMISSIONS ==
    [ super_admin |-> PermissionMap(PermissionNames),
      cfo |-> PermissionMap({"can_manage_funds", "can_view_all_data",
                             "can_manage_investors", "can_manage_properties",
                             "can_view_financials", "can_approve_transactions"}),
      fund_administrator |-> PermissionMap({"can_manage_funds", "can_view_all_data",
                             "can_manage_investors", "can_manage_properties",
                             "can_view_financials"}),
      fund_accountant |-> PermissionMap({"can_view_all_data", "can_view_financials"}),
      general_partner |-> PermissionMap({"can_manage_funds", "can_view_all_data",
                             "can_manage_investors", "can_manage_properties",
                             "can_view_financials", "can_approve_transactions"}),
      investor |-> PermissionMap({}),
      external_auditor |-> PermissionMap({"can_view_all_data", "can_view_financials"}),
      legal_compliance |-> PermissionMap({"can_view_all_data", "can_view_financials"}) ]

(***************************************************************************)
(* auth/permissions.py: get_role_permissions, has_permission               *)
(***************************************************************************)
\* dict.get(key, default) on a function.
DictGet(d, key, default) == IF key \in DOMAIN d THEN d[key] ELSE default

\* The empty dict.
EmptyDict == [k \in {} |-> FALSE]

\* RoleEnum(role) raises ValueError for a value that is no member; the except
\* clause returns {}.  A member without a matrix entry gets the .get default {}.
get_role_permissions(role) ==
    IF role \in RoleEnum
    THEN DictGet(ROLE_PERMISSIONS, role, EmptyDict)
    ELSE EmptyDict

\* Mutant: unknown roles fall back to the super_admin entry.
has_permission_DefaultOpen(role, permission) ==
    LET permissions == IF role \in DOMAIN ROLE_PERMISSIONS
                       THEN ROLE_PERMISSIONS[role]
                       ELSE ROLE_PERMISSIONS[SUPER_ADMIN]
    IN  DictGet(permissions, permission, FALSE)

has_permission(role, permission) ==
    LET permissions == get_role_permissions(role)
    IN  DictGet(permissions, permission, FALSE)

\* Role arguments tried: every RoleEnum value, strings outside it, and None.
HpRoleInputs == RoleEnum \cup {"", "fund_manager", "Admin", "CFO", None}
\* Permission arguments tried: every matrix key and names outside it.
HpPermissionInputs == PermissionNames \cup {"", "can_delete_everything"}

(***************************************************************************)
(* repositories/mongo_repository.py over the three collections            *)
(***************************************************************************)
\* A stored document as the repository returns it: doc["id"] = str(_id).
WithId(id, doc) == [k \in DOMAIN doc \cup {"id"} |-> IF k = "id" THEN id ELSE doc[k]]

\* d[key] = value on a Python dict (the key is added when absent).
DictSet(d, key, value) ==
    [k \in DOMAIN d \cup {key} |-> IF k = key THEN value ELSE d[k]]

\* MongoRepository.get_by_id: the id of the document found (its document is
\* coll[id]), or None, also for a string that is no ObjectId of the collection.
get_by_id(coll, id) == IF id \in DOMAIN coll THEN id ELSE None

\* MongoRepository.get_by_field: the ids of the documents with doc[field] = value.
get_by_field(coll, field, value) == {id \in DOMAIN coll : coll[id][field] = value}

\* MongoRepository.create: insert_one under a fresh ObjectId.
repo_create(coll, id, data) == [k \in DOMAIN coll \cup {id} |-> IF k = id THEN data ELSE coll[k]]

\* The keys whose values are booleans in every request of the model (never None).
BoolKeys == {"is_primary", "is_system", "is_active"}

\* v is not None, for the value v of key k.
NotNone(k, v) == k \in BoolKeys \/ v # None

\* MongoRepository.update: None values are dropped, the rest is $set.
repo_update(coll, id, data) ==
    LET update_data == {k \in DOMAIN data : NotNone(k, data[k])}
    IN  [coll EXCEPT ![id] =
            [k \in DOMAIN @ \cup update_data |-> IF k \in update_data THEN data[k] ELSE @[k]]]

\* MongoRepository.delete: delete_one.
repo_delete(coll, id) == [k \in DOMAIN coll \ {id} |-> coll[k]]

(***************************************************************************)
(* auth/permissions.py: the access guards                                  *)
(*                                                                         *)
(* The guards are written against a user object with an is_superuser       *)
(* attribute and UserOrganization rows with user_id, organization_id and   *)
(* role; they are modelled as written, the rows being the documents of     *)
(* "user_organizations".  They read the stored role field, not role_id.    *)
(***************************************************************************)
\* The guard returns current_user.
Allowed == [status_code |-> 200, detail |-> "current_user"]
\* HTTPException(403, "You don't have permission to perform this action")
InsufficientPermission ==
    [status_code |-> 403, detail |-> "You don't have permission to perform this action"]
\* HTTPException(403, "You don't have access to this organization")
NoOrganizationAccess ==
    [status_code |-> 403, detail |-> "You don't have access to this organization"]

\* query(UserOrganization).filter(user_id == ...).all()
UserOrgs(user_id) ==
    {id \in DOMAIN user_organizations : user_organizations[id].user_id = user_id}

\* query(UserOrganization).filter(user_id == ..., organization_id == ...).first():
\* the rows .first() may return (None when there is no row; the query has no order).
FirstMapping(user_id, organization_id) ==
    LET rows == {id \in UserOrgs(user_id) :
                    user_organizations[id].organization_id = organization_id}
    IN  IF rows = {} THEN {None} ELSE rows

\* Mutant: the role test comes before the superuser bypass is looked at.
RoleChecker_NoBypass(allowed_roles, current_user) ==
    IF \E org \in UserOrgs(current_user) :
           \/ user_organizations[org].role \in allowed_roles
           \/ user_organizations[org].role = SUPER_ADMIN
    THEN Allowed
    ELSE InsufficientPermission

\* Mutant: only the allow-list counts, a super_admin membership does not.
RoleChecker_ListOnly(allowed_roles, current_user) ==
    IF users[current_user].is_superuser THEN Allowed
    ELSE IF \E org \in UserOrgs(current_user) :
               user_organizations[org].role \in allowed_roles
    THEN Allowed
    ELSE InsufficientPermission

\* Mutant: a membership without a role passes.
RoleChecker_NoRolePasses(allowed_roles, current_user) ==
    IF users[current_user].is_superuser THEN Allowed
    ELSE IF \E org \in UserOrgs(current_user) :
               \/ user_organizations[org].role \in allowed_roles \cup {None, ""}
               \/ user_organizations[org].role = SUPER_ADMIN
    THEN Allowed
    ELSE InsufficientPermission

\* RoleChecker(allowed_roles).__call__(current_user)
RoleChecker(allowed_roles, current_user) ==
    IF users[current_user].is_superuser THEN Allowed
    ELSE IF \E org \in UserOrgs(current_user) :
               \/ user_organizations[org].role \in allowed_roles
               \/ user_organizations[org].role = SUPER_ADMIN
    THEN Allowed
    ELSE InsufficientPermission

\* Mutant: a missing membership is reported as insufficient permission.
OrganizationRoleChecker_OneDenial(allowed_roles, current_user, mapping) ==
    IF users[current_user].is_superuser THEN Allowed
    ELSE IF mapping = None THEN InsufficientPermission
    ELSE IF /\ user_organizations[mapping].role \notin allowed_roles
            /\ user_organizations[mapping].role # SUPER_ADMIN
    THEN InsufficientPermission
    ELSE Allowed

\* Mutant: the role is looked for in any of the user's organizations.
OrganizationRoleChecker_AnyOrg(allowed_roles, current_user, mapping) ==
    IF users[current_user].is_superuser THEN Allowed
    ELSE IF mapping = None /\ UserOrgs(current_user) = {} THEN NoOrganizationAccess
    ELSE IF \A org \in UserOrgs(current_user) :
               /\ user_organizations[org].role \notin allowed_roles
               /\ user_organizations[org].role # SUPER_ADMIN
    THEN IF mapping = None THEN NoOrganizationAccess ELSE InsufficientPermission
    ELSE Allowed

\* OrganizationRoleChecker(allowed_roles).__call__(organization_id, current_user),
\* `mapping` being what .first() returned for (current_user, organization_id).
OrganizationRoleChecker(allowed_roles, current_user, mapping) ==
    IF users[current_user].is_superuser THEN Allowed
    ELSE IF mapping = None THEN NoOrganizationAccess
    ELSE IF /\ user_organizations[mapping].role \notin allowed_roles
            /\ user_organizations[mapping].role # SUPER_ADMIN
    THEN InsufficientPermission
    ELSE Allowed

\* The pre-defined role checkers.
require_super_admin == {"super_admin"}
require_cfo_or_above == {"super_admin", "cfo", "general_partner"}
require_fund_admin == {"super_admin", "cfo", "fund_administrator", "general_partner"}
require_accountant_or_above ==
    {"super_admin", "cfo", "fund_administrator", "fund_accountant", "general_partner"}
require_auditor_access == {"super_admin", "cfo", "external_auditor", "legal_compliance"}

(***************************************************************************)
(* routes/user_organizations.py: the Role Resolver                         *)
(***************************************************************************)
\* get_role_by_id(role_id)
get_role_by_id(role_id) == get_by_id(roles, role_id)

\* get_role_by_name(role_name): roles[0] of the roles named role_name.lower(), or
\* None.  The find has no sort, so any of several such roles may come first.
get_role_by_name(role_name) ==
    LET found == get_by_field(roles, "name", lower(role_name))
    IN  IF found = {} THEN {None} ELSE found

\* Mutant: when no role has the mapping's role_id, the role is looked up by name.
ResolverLookup_NameFallback(mapping) ==
    IF ~Falsy(mapping.role_id) /\ get_role_by_id(mapping.role_id) # None
    THEN {get_role_by_id(mapping.role_id)}
    ELSE IF ~Falsy(mapping.role) THEN get_role_by_name(mapping.role)
    ELSE {None}

\* The role the resolver looks up for a mapping: by role_id when that is set,
\* else by role name when that is set, else none.
ResolverLookup(mapping) ==
    IF ~Falsy(mapping.role_id) THEN {get_role_by_id(mapping.role_id)}
    ELSE IF ~Falsy(mapping.role) THEN get_role_by_name(mapping.role)
    ELSE {None}

\* Mutant: a legacy mapping whose role is not found gets its role name as
\* display name.
enrich_mapping_with_role_Default(mapping, role) ==
    IF ~Falsy(mapping.role_id)
    THEN IF role # None
         THEN DictSet(DictSet(DictSet(mapping,
                  "role_name", roles[role].name),
                  "role_display_name", roles[role].display_name),
                  "role", roles[role].name)
         ELSE mapping
    ELSE IF ~Falsy(mapping.role)
    THEN IF role # None
         THEN DictSet(DictSet(DictSet(mapping,
                  "role_id", role),
                  "role_name", roles[role].name),
                  "role_display_name", roles[role].display_name)
         ELSE DictSet(mapping, "role_display_name", mapping.role)
    ELSE mapping

\* Mutant: the legacy role field is left as it is when the role is found by id.
enrich_mapping_with_role_KeepRole(mapping, role) ==
    IF ~Falsy(mapping.role_id)
    THEN IF role # None
         THEN DictSet(DictSet(mapping,
                  "role_name", roles[role].name),
                  "role_display_name", roles[role].display_name)
         ELSE mapping
    ELSE IF ~Falsy(mapping.role)
    THEN IF role # None
         THEN DictSet(DictSet(DictSet(mapping,
                  "role_id", role),
                  "role_name", roles[role].name),
                  "role_display_name", roles[role].display_name)
         ELSE mapping
    ELSE mapping

\* enrich_mapping_with_role(mapping), `role` being what the lookup returned
\* (a member of ResolverLookup(mapping)).
enrich_mapping_with_role(mapping, role) ==
    IF ~Falsy(mapping.role_id)
    THEN IF role # None
         THEN DictSet(DictSet(DictSet(mapping,
                  "role_name", roles[role].name),
                  "role_display_name", roles[role].display_name),
                  "role", roles[role].name)
         ELSE mapping
    ELSE IF ~Falsy(mapping.role)
    THEN IF role # None
         THEN DictSet(DictSet(DictSet(mapping,
                  "role_id", role),
                  "role_name", roles[role].name),
                  "role_display_name", roles[role].display_name)
         ELSE mapping
    ELSE mapping

(***************************************************************************)
(* Responses                                                               *)
(***************************************************************************)
\* raise HTTPException(status_code, detail): nothing is written.
HttpError(op, status_code, detail) ==
    /\ resp' = [op |-> op, status_code |-> status_code, detail |-> detail]
    /\ UNCHANGED <<users, organizations, roles, user_organizations,
                   next_role_oid, next_mapping_oid, hp,
                   unique_index, in_flight, allowed_before>>

\* The response of a handler that returns `body`.
HttpOk(op, status_code, body) == [op |-> op, status_code |-> status_code, body |-> body]

(***************************************************************************)
(* routes/user_organizations.py: the handlers                              *)
(***************************************************************************)
\* Mutant: POST /user-organizations/ without the check for an existing mapping
\* of the user and the organization.
assign_user_to_organization_NoPairCheck(mapping) ==
    LET op == "assign_user_to_organization" IN
    IF get_by_id(users, mapping.user_id) = None
    THEN HttpError(op, 404, "User not found")
    ELSE IF mapping.organization_id \notin organizations
    THEN HttpError(op, 404, "Organization not found")
    ELSE IF ~Falsy(mapping.role_id) /\ get_role_by_id(mapping.role_id) = None
    THEN HttpError(op, 404, "Role not found")
    ELSE
        /\ next_mapping_oid <= MaxMappingOid
        /\ \E role \in ResolverLookup(mapping) :
            \* role_id given: the role's name replaces the request's; only a role
            \* name given: the id of the role of that name, if any, is filled in
            LET data == IF ~Falsy(mapping.role_id)
                        THEN [mapping EXCEPT !.role = roles[role].name]
                        ELSE IF ~Falsy(mapping.role) /\ role # None
                        THEN [mapping EXCEPT !.role_id = role]
                        ELSE mapping
                id == MappingOid(next_mapping_oid)
            IN  /\ user_organizations' = repo_create(user_organizations, id, data)
                /\ next_mapping_oid' = next_mapping_oid + 1
                /\ \E found \in ResolverLookup(data) :
                       resp' = HttpOk(op, 201, enrich_mapping_with_role(WithId(id, data), found))
        /\ UNCHANGED <<users, organizations, roles, next_role_oid, hp,
                   unique_index, in_flight, allowed_before>>

\* POST /user-organizations/
assign_user_to_organization(mapping) ==
    LET op == "assign_user_to_organization" IN
    IF get_by_id(users, mapping.user_id) = None
    THEN HttpError(op, 404, "User not found")
    ELSE IF mapping.organization_id \notin organizations
    THEN HttpError(op, 404, "Organization not found")
    ELSE IF \E e \in get_by_field(user_organizations, "user_id", mapping.user_id) :
                user_organizations[e].organization_id = mapping.organization_id
    THEN HttpError(op, 400, "User already assigned to this organization")
    ELSE IF ~Falsy(mapping.role_id) /\ get_role_by_id(mapping.role_id) = None
    THEN HttpError(op, 404, "Role not found")
    ELSE
        /\ next_mapping_oid <= MaxMappingOid
        /\ \E role \in ResolverLookup(mapping) :
            \* role_id given: the role's name replaces the request's; only a role
            \* name given: the id of the role of that name, if any, is filled in
            LET data == IF ~Falsy(mapping.role_id)
                        THEN [mapping EXCEPT !.role = roles[role].name]
                        ELSE IF ~Falsy(mapping.role) /\ role # None
                        THEN [mapping EXCEPT !.role_id = role]
                        ELSE mapping
                id == MappingOid(next_mapping_oid)
            IN  /\ user_organizations' = repo_create(user_organizations, id, data)
                /\ next_mapping_oid' = next_mapping_oid + 1
                /\ \E found \in ResolverLookup(data) :
                       resp' = HttpOk(op, 201, enrich_mapping_with_role(WithId(id, data), found))
        /\ UNCHANGED <<users, organizations, roles, next_role_oid, hp,
                   unique_index, in_flight, allowed_before>>

\* The mappings of (user_id, organization_id) in the collection.
MappingsOfPair(user_id, organization_id) ==
    {e \in get_by_field(user_organizations, "user_id", user_id) :
        user_organizations[e].organization_id = organization_id}

\* POST /user-organizations/ up to its write: the handler's checks and role
\* lookup, each an await.  A request that passes waits in in_flight with the
\* document it will create.
assign_user_to_organization_checks(mapping) ==
    LET op == "assign_user_to_organization" IN
    IF get_by_id(users, mapping.user_id) = None
    THEN HttpError(op, 404, "User not found")
    ELSE IF mapping.organization_id \notin organizations
    THEN HttpError(op, 404, "Organization not found")
    ELSE IF MappingsOfPair(mapping.user_id, mapping.organization_id) # {}
    THEN HttpError(op, 400, "User already assigned to this organization")
    ELSE IF ~Falsy(mapping.role_id) /\ get_role_by_id(mapping.role_id) = None
    THEN HttpError(op, 404, "Role not found")
    ELSE
        /\ Cardinality(in_flight) < MaxInFlight
        /\ \E role \in ResolverLookup(mapping) :
            LET data == IF ~Falsy(mapping.role_id)
                        THEN [mapping EXCEPT !.role = roles[role].name]
                        ELSE IF ~Falsy(mapping.role) /\ role # None
                        THEN [mapping EXCEPT !.role_id = role]
                        ELSE mapping
                req == CHOOSE n \in 1..MaxInFlight : \A r \in in_flight : r.req # n
            IN  in_flight' = in_flight \cup {[req |-> req, data |-> data]}
        /\ UNCHANGED <<users, organizations, roles, user_organizations,
                       next_role_oid, next_mapping_oid, hp, resp, unique_index, allowed_before>>

\* POST /user-organizations/ from its write on: mappings_repo.create(data) and
\* the enriched response.  insert_one raises DuplicateKeyError, which nothing
\* catches, when the unique index is there and the pair is in the collection.
assign_user_to_organization_create(r) ==
    LET op == "assign_user_to_organization"
        id == MappingOid(next_mapping_oid)
    IN
    IF unique_index /\ MappingsOfPair(r.data.user_id, r.data.organization_id) # {}
    THEN /\ resp' = [op |-> op, status_code |-> 500, detail |-> "DuplicateKeyError"]
         /\ in_flight' = in_flight \ {r}
         /\ UNCHANGED <<users, organizations, roles, user_organizations,
                        next_role_oid, next_mapping_oid, hp, unique_index, allowed_before>>
    ELSE
        /\ next_mapping_oid <= MaxMappingOid
        /\ user_organizations' = repo_create(user_organizations, id, r.data)
        /\ next_mapping_oid' = next_mapping_oid + 1
        /\ in_flight' = in_flight \ {r}
        /\ \E found \in ResolverLookup(r.data) :
               resp' = HttpOk(op, 201, enrich_mapping_with_role(WithId(id, r.data), found))
        /\ UNCHANGED <<users, organizations, roles, next_role_oid, hp, unique_index, allowed_before>>

\* GET /user-organizations/ (skip 0, limit 100): every mapping, enriched.  The
\* enrichment is made on the documents read, nothing is written back.
get_all_mappings ==
    /\ \E found \in [DOMAIN user_organizations -> DOMAIN roles \cup {None}] :
        /\ \A id \in DOMAIN user_organizations :
               found[id] \in ResolverLookup(user_organizations[id])
        /\ resp' = HttpOk("get_all_mappings", 200,
               [id \in DOMAIN user_organizations |->
                   enrich_mapping_with_role(WithId(id, user_organizations[id]), found[id])])
    /\ UNCHANGED <<users, organizations, roles, user_organizations,
                   next_role_oid, next_mapping_oid, hp, unique_index, in_flight, allowed_before>>

\* PUT /user-organizations/{mapping_id}
update_user_organization_role(mapping_id, mapping_update) ==
    LET op == "update_user_organization_role"
        role_id == DictGet(mapping_update, "role_id", None)
        role_name == DictGet(mapping_update, "role", None)
    IN
    IF get_by_id(user_organizations, mapping_id) = None
    THEN HttpError(op, 404, "Mapping not found")
    ELSE IF ~Falsy(role_id) /\ get_role_by_id(role_id) = None
    THEN HttpError(op, 404, "Role not found")
    ELSE
        /\ \E role \in (IF ~Falsy(role_id) THEN {role_id}
                        ELSE IF ~Falsy(role_name) THEN get_role_by_name(role_name)
                        ELSE {None}) :
            LET update_data == IF ~Falsy(role_id)
                               THEN DictSet(mapping_update, "role", roles[role].name)
                               ELSE IF ~Falsy(role_name) /\ role # None
                               THEN DictSet(mapping_update, "role_id", role)
                               ELSE mapping_update
                updated == repo_update(user_organizations, mapping_id, update_data)
            IN  /\ user_organizations' = updated
                /\ \E found \in ResolverLookup(updated[mapping_id]) :
                       resp' = HttpOk(op, 200,
                           enrich_mapping_with_role(WithId(mapping_id, updated[mapping_id]), found))
        /\ UNCHANGED <<users, organizations, roles, next_role_oid, next_mapping_oid, hp,
                   unique_index, in_flight, allowed_before>>

\* DELETE /user-organizations/{mapping_id}
remove_user_from_organization(mapping_id) ==
    LET op == "remove_user_from_organization" IN
    IF mapping_id \notin DOMAIN user_organizations
    THEN HttpError(op, 404, "Mapping not found")
    ELSE
        /\ user_organizations' = repo_delete(user_organizations, mapping_id)
        /\ resp' = HttpOk(op, 204, None)
        /\ UNCHANGED <<users, organizations, roles, next_role_oid, next_mapping_oid, hp,
                   unique_index, in_flight, allowed_before>>

\* DELETE /user-organizations/user/{user_id}/organization/{organization_id}
remove_user_from_organization_by_ids(user_id, organization_id) ==
    LET op == "remove_user_from_organization_by_ids"
        found == {m \in get_by_field(user_organizations, "user_id", user_id) :
                     user_organizations[m].organization_id = organization_id}
    IN
    IF found = {}
    THEN HttpError(op, 404, "Mapping not found")
    ELSE
        \* the first mapping of the loop that matches is deleted, and only that one
        /\ \E m \in found : user_organizations' = repo_delete(user_organizations, m)
        /\ resp' = HttpOk(op, 204, None)
        /\ UNCHANGED <<users, organizations, roles, next_role_oid, next_mapping_oid, hp,
                   unique_index, in_flight, allowed_before>>

(***************************************************************************)
(* routes/roles.py                                                         *)
(***************************************************************************)
\* A permissions dict is opaque to the role routes: each is a token here.
DEFAULT_ROLES ==
    << [name |-> "admin", display_name |-> "Admin",
        description |-> "Full administrative access to the organization",
        permissions |-> "permissions:admin", is_system |-> TRUE, is_active |-> TRUE],
       [name |-> "fund_manager", display_name |-> "Fund Manager",
        description |-> "Can manage funds, investors, and properties",
        permissions |-> "permissions:fund_manager", is_system |-> TRUE, is_active |-> TRUE],
       [name |-> "analyst", display_name |-> "Analyst",
        description |-> "Can view and analyze data but cannot make changes",
        permissions |-> "permissions:analyst", is_system |-> TRUE, is_active |-> TRUE],
       [name |-> "viewer", display_name |-> "Viewer",
        description |-> "Read-only access to data",
        permissions |-> "permissions:viewer", is_system |-> TRUE, is_active |-> TRUE] >>

\* The default roles the seeding loop creates: those whose name no role has.
SeedMissing(coll) ==
    SelectSeq(DEFAULT_ROLES, LAMBDA role_data : get_by_field(coll, "name", role_data.name) = {})

\* POST /roles/seed
seed_default_roles ==
    LET missing == SeedMissing(roles)
        created == {RoleOid(next_role_oid + i - 1) : i \in 1..Len(missing)}
        DataOf(id) == missing[CHOOSE i \in 1..Len(missing) : id = RoleOid(next_role_oid + i - 1)]
    IN  /\ roles' = [id \in DOMAIN roles \cup created |->
                        IF id \in created THEN DataOf(id) ELSE roles[id]]
        /\ next_role_oid' = next_role_oid + Len(missing)
        /\ resp' = HttpOk("seed_default_roles", 200, created)
        /\ UNCHANGED <<users, organizations, user_organizations, next_mapping_oid, hp,
                   unique_index, in_flight, allowed_before>>

\* Mutant: the check for an existing role of that name is left out.
create_role_NoCheck(role) ==
    /\ next_role_oid <= MaxRoleOid
    /\ roles' = repo_create(roles, RoleOid(next_role_oid), role)
    /\ next_role_oid' = next_role_oid + 1
    /\ resp' = HttpOk("create_role", 201, WithId(RoleOid(next_role_oid), role))
    /\ UNCHANGED <<users, organizations, user_organizations, next_mapping_oid, hp,
                   unique_index, in_flight, allowed_before>>

\* POST /roles/
create_role(role) ==
    IF get_by_field(roles, "name", role.name) # {}
    THEN HttpError("create_role", 400, "Role with this name already exists")
    ELSE
        /\ next_role_oid <= MaxRoleOid
        /\ roles' = repo_create(roles, RoleOid(next_role_oid), role)
        /\ next_role_oid' = next_role_oid + 1
        /\ resp' = HttpOk("create_role", 201, WithId(RoleOid(next_role_oid), role))
        /\ UNCHANGED <<users, organizations, user_organizations, next_mapping_oid, hp,
                   unique_index, in_flight, allowed_before>>

\* PUT /roles/{role_id}
update_role(role_id, role_update) ==
    IF get_by_id(roles, role_id) = None
    THEN HttpError("update_role", 404, "Role not found")
    ELSE IF roles[role_id].is_system /\ ~Falsy(DictGet(role_update, "name", None))
    THEN HttpError("update_role", 400, "Cannot change name of system roles")
    ELSE
        /\ roles' = repo_update(roles, role_id, role_update)
        /\ resp' = HttpOk("update_role", 200, WithId(role_id, roles'[role_id]))
        /\ UNCHANGED <<users, organizations, user_organizations,
                       next_role_oid, next_mapping_oid, hp,
                   unique_index, in_flight, allowed_before>>

\* Mutant: the check for memberships that use the role is left out.
delete_role_NoUseCheck(role_id) ==
    IF get_by_id(roles, role_id) = None
    THEN HttpError("delete_role", 404, "Role not found")
    ELSE IF roles[role_id].is_system
    THEN HttpError("delete_role", 400, "Cannot delete system roles")
    ELSE
        /\ roles' = repo_delete(roles, role_id)
        /\ resp' = HttpOk("delete_role", 204, None)
        /\ UNCHANGED <<users, organizations, user_organizations,
                       next_role_oid, next_mapping_oid, hp,
                   unique_index, in_flight, allowed_before>>

\* DELETE /roles/{role_id}
delete_role(role_id) ==
    LET users_with_role == get_by_field(user_organizations, "role_id", role_id) IN
    IF get_by_id(roles, role_id) = None
    THEN HttpError("delete_role", 404, "Role not found")
    ELSE IF roles[role_id].is_system
    THEN HttpError("delete_role", 400, "Cannot delete system roles")
    ELSE IF users_with_role # {}
    THEN /\ resp' = [op |-> "delete_role", status_code |-> 400,
                     detail |-> "Cannot delete role - it is assigned to n user(s)",
                     n |-> Cardinality(users_with_role)]
         /\ UNCHANGED <<users, organizations, roles, user_organizations,
                        next_role_oid, next_mapping_oid, hp,
                   unique_index, in_flight, allowed_before>>
    ELSE
        /\ roles' = repo_delete(roles, role_id)
        /\ resp' = HttpOk("delete_role", 204, None)
        /\ UNCHANGED <<users, organizations, user_organizations,
                       next_role_oid, next_mapping_oid, hp,
                   unique_index, in_flight, allowed_before>>

\* DELETE /roles/{role_id} up to its write: the existence, system-role and
\* in-use checks, each behind an await.  A request that passes waits in
\* in_flight with the id it will delete.
delete_role_checks(role_id) ==
    LET users_with_role == get_by_field(user_organizations, "role_id", role_id) IN
    IF get_by_id(roles, role_id) = None
    THEN HttpError("delete_role", 404, "Role not found")
    ELSE IF roles[role_id].is_system
    THEN HttpError("delete_role", 400, "Cannot delete system roles")
    ELSE IF users_with_role # {}
    THEN /\ resp' = [op |-> "delete_role", status_code |-> 400,
                     detail |-> "Cannot delete role - it is assigned to n user(s)",
                     n |-> Cardinality(users_with_role)]
         /\ UNCHANGED <<users, organizations, roles, user_organizations,
                        next_role_oid, next_mapping_oid, hp, unique_index, in_flight, allowed_before>>
    ELSE
        /\ Cardinality(in_flight) < MaxInFlight
        /\ LET req == CHOOSE n \in 1..MaxInFlight : \A r \in in_flight : r.req # n
           IN  in_flight' = in_flight \cup {[req |-> req, role_id |-> role_id]}
        /\ UNCHANGED <<users, organizations, roles, user_organizations,
                       next_role_oid, next_mapping_oid, hp, resp, unique_index, allowed_before>>

\* Mutant: the deletion looks again for memberships that use the role.
delete_role_delete_Rechecks(r) ==
    IF get_by_field(user_organizations, "role_id", r.role_id) # {}
    THEN /\ resp' = [op |-> "delete_role", status_code |-> 400,
                     detail |-> "Cannot delete role - it is assigned to n user(s)",
                     n |-> Cardinality(get_by_field(user_organizations, "role_id", r.role_id))]
         /\ in_flight' = in_flight \ {r}
         /\ UNCHANGED <<users, organizations, roles, user_organizations,
                        next_role_oid, next_mapping_oid, hp, unique_index, allowed_before>>
    ELSE IF r.role_id \notin DOMAIN roles
    THEN /\ resp' = [op |-> "delete_role", status_code |-> 404, detail |-> "Role not found"]
         /\ in_flight' = in_flight \ {r}
         /\ UNCHANGED <<users, organizations, roles, user_organizations,
                        next_role_oid, next_mapping_oid, hp, unique_index, allowed_before>>
    ELSE
        /\ roles' = repo_delete(roles, r.role_id)
        /\ resp' = HttpOk("delete_role", 204, None)
        /\ in_flight' = in_flight \ {r}
        /\ UNCHANGED <<users, organizations, user_organizations,
                       next_role_oid, next_mapping_oid, hp, unique_index, allowed_before>>

\* DELETE /roles/{role_id} from its write on: repo.delete(role_id), which is
\* false (404) when another request has deleted the role meanwhile.
delete_role_delete(r) ==
    IF r.role_id \notin DOMAIN roles
    THEN /\ resp' = [op |-> "delete_role", status_code |-> 404, detail |-> "Role not found"]
         /\ in_flight' = in_flight \ {r}
         /\ UNCHANGED <<users, organizations, roles, user_organizations,
                        next_role_oid, next_mapping_oid, hp, unique_index, allowed_before>>
    ELSE
        /\ roles' = repo_delete(roles, r.role_id)
        /\ resp' = HttpOk("delete_role", 204, None)
        /\ in_flight' = in_flight \ {r}
        /\ UNCHANGED <<users, organizations, user_organizations,
                       next_role_oid, next_mapping_oid, hp, unique_index, allowed_before>>

(***************************************************************************)
(* Requests that pass through a guard                                      *)
(***************************************************************************)
\* Mutant: a user the guard lets through is marked as superuser from then on.
CallRoleChecker_Writes(allowed_roles, current_user) ==
    LET outcome == RoleChecker(allowed_roles, current_user) IN
    /\ resp' = [op |-> "RoleChecker", status_code |-> outcome.status_code,
                detail |-> outcome.detail, allowed_roles |-> allowed_roles,
                current_user |-> current_user]
    /\ users' = IF outcome = Allowed
                THEN [users EXCEPT ![current_user].is_superuser = TRUE]
                ELSE users
    /\ UNCHANGED <<organizations, roles, user_organizations,
                   next_role_oid, next_mapping_oid, hp, unique_index, in_flight, allowed_before>>

\* A request of current_user to an operation behind RoleChecker(allowed_roles).
CallRoleChecker(allowed_roles, current_user) ==
    LET outcome == RoleChecker(allowed_roles, current_user) IN
    /\ resp' = [op |-> "RoleChecker", status_code |-> outcome.status_code,
                detail |-> outcome.detail, allowed_roles |-> allowed_roles,
                current_user |-> current_user]
    /\ UNCHANGED <<users, organizations, roles, user_organizations,
                   next_role_oid, next_mapping_oid, hp,
                   unique_index, in_flight, allowed_before>>

\* A request of current_user to an operation on organization_id behind
\* OrganizationRoleChecker(allowed_roles).
CallOrganizationRoleChecker(allowed_roles, organization_id, current_user) ==
    \E mapping \in FirstMapping(current_user, organization_id) :
        LET outcome == OrganizationRoleChecker(allowed_roles, current_user, mapping) IN
        /\ resp' = [op |-> "OrganizationRoleChecker", status_code |-> outcome.status_code,
                    detail |-> outcome.detail, allowed_roles |-> allowed_roles,
                    current_user |-> current_user, organization_id |-> organization_id]
        /\ UNCHANGED <<users, organizations, roles, user_organizations,
                       next_role_oid, next_mapping_oid, hp,
                   unique_index, in_flight, allowed_before>>

\* Mutant: a request of a user the guard has let through before, for the same
\* organization and allow-list, is let through without a new look at the store.
CallOrganizationRoleChecker_logged_Cached(allowed_roles, organization_id, current_user) ==
    LET request == [current_user |-> current_user, organization_id |-> organization_id,
                    allowed_roles |-> allowed_roles]
    IN
    \E mapping \in FirstMapping(current_user, organization_id) :
        LET outcome == IF request \in allowed_before THEN Allowed
                       ELSE OrganizationRoleChecker(allowed_roles, current_user, mapping)
        IN
        /\ resp' = [op |-> "OrganizationRoleChecker", status_code |-> outcome.status_code,
                    detail |-> outcome.detail, allowed_roles |-> allowed_roles,
                    current_user |-> current_user, organization_id |-> organization_id]
        /\ allowed_before' = IF outcome = Allowed
                             THEN allowed_before \cup {request} ELSE allowed_before
        /\ UNCHANGED <<users, organizations, roles, user_organizations,
                       next_role_oid, next_mapping_oid, hp, unique_index, in_flight>>

\* The same request as CallOrganizationRoleChecker, with the history of the
\* requests let through kept in allowed_before.
CallOrganizationRoleChecker_logged(allowed_roles, organization_id, current_user) ==
    LET request == [current_user |-> current_user, organization_id |-> organization_id,
                    allowed_roles |-> allowed_roles]
    IN
    \E mapping \in FirstMapping(current_user, organization_id) :
        LET outcome == OrganizationRoleChecker(allowed_roles, current_user, mapping) IN
        /\ resp' = [op |-> "OrganizationRoleChecker", status_code |-> outcome.status_code,
                    detail |-> outcome.detail, allowed_roles |-> allowed_roles,
                    current_user |-> current_user, organization_id |-> organization_id]
        /\ allowed_before' = IF outcome = Allowed
                             THEN allowed_before \cup {request} ELSE allowed_before
        /\ UNCHANGED <<users, organizations, roles, user_organizations,
                       next_role_oid, next_mapping_oid, hp, unique_index, in_flight>>

\* A call of has_permission with the arguments drawn at the start.
Call_has_permission ==
    /\ ~hp.called
    /\ hp' = [hp EXCEPT !.called = TRUE, !.result = has_permission(hp.role, hp.permission)]
    /\ UNCHANGED <<users, organizations, roles, user_organizations,
                   next_role_oid, next_mapping_oid, resp,
                   unique_index, in_flight, allowed_before>>

(***************************************************************************)
(* Requests during which a read of the store fails                         *)
(***************************************************************************)
\* An exception that nothing catches: the request ends as a server error.
Raised == "<raised>"
StoreError == [status_code |-> 500, detail |-> "Internal Server Error"]

\* MongoRepository.get_by_id when find_one may raise: `except Exception: return
\* None` gives None for a failed read as for a document that is not there.
get_by_id_store_failing(coll, id, fails) ==
    IF fails THEN None ELSE get_by_id(coll, id)

\* The resolver's lookup when the reads of "roles" may fail: by id through
\* get_by_id, by name through get_by_field, which catches nothing.
ResolverLookup_store_failing(mapping, fails) ==
    IF ~Falsy(mapping.role_id)
    THEN {get_by_id_store_failing(roles, mapping.role_id, fails)}
    ELSE IF ~Falsy(mapping.role)
    THEN IF fails THEN {Raised} ELSE get_role_by_name(mapping.role)
    ELSE {None}

\* GET /user-organizations/ while the reads of collection `fails` fail ("none":
\* no read fails).  failed_read: a read made for this request has failed.
get_all_mappings_store_failing(fails) ==
    LET op == "get_all_mappings" IN
    /\ IF fails = "user_organizations"
       THEN resp' = [op |-> op, status_code |-> StoreError.status_code,
                     detail |-> StoreError.detail, failed_read |-> TRUE]
       ELSE \E found \in [DOMAIN user_organizations -> DOMAIN roles \cup {None, Raised}] :
            /\ \A id \in DOMAIN user_organizations :
                   found[id] \in ResolverLookup_store_failing(user_organizations[id],
                                                              fails = "roles")
            /\ IF \E id \in DOMAIN user_organizations : found[id] = Raised
               THEN resp' = [op |-> op, status_code |-> StoreError.status_code,
                             detail |-> StoreError.detail, failed_read |-> TRUE]
               ELSE resp' = [op |-> op, status_code |-> 200,
                             body |-> [id \in DOMAIN user_organizations |->
                                 enrich_mapping_with_role(
                                     WithId(id, user_organizations[id]), found[id])],
                             failed_read |->
                                 /\ fails = "roles"
                                 /\ \E id \in DOMAIN user_organizations :
                                        ~Falsy(user_organizations[id].role_id)]
    /\ UNCHANGED <<users, organizations, roles, user_organizations,
                   next_role_oid, next_mapping_oid, hp, unique_index, in_flight, allowed_before>>

\* A request behind OrganizationRoleChecker(allowed_roles) while the mapping
\* query may raise: the guard catches nothing.  A superuser is let through
\* before any read.
CallOrganizationRoleChecker_store_failing(allowed_roles, organization_id, current_user, fails) ==
    /\ IF fails /\ ~users[current_user].is_superuser
       THEN resp' = [op |-> "OrganizationRoleChecker",
                     status_code |-> StoreError.status_code,
                     detail |-> StoreError.detail, failed_read |-> TRUE]
       ELSE \E mapping \in FirstMapping(current_user, organization_id) :
            LET outcome == OrganizationRoleChecker(allowed_roles, current_user, mapping) IN
            resp' = [op |-> "OrganizationRoleChecker", status_code |-> outcome.status_code,
                     detail |-> outcome.detail, failed_read |-> FALSE]
    /\ UNCHANGED <<users, organizations, roles, user_organizations,
                   next_role_oid, next_mapping_oid, hp, unique_index, in_flight, allowed_before>>

(***************************************************************************)
(* Specifications                                                          *)
(***************************************************************************)
\* The users and organizations that exist; "u9", "o9", "r9" and "m9" name nothing.
UserIds == {"u1", "u2"}
OrganizationIds == {"o1", "o2"}

\* No has_permission call is part of the run.
NoCall == [role |-> None, permission |-> None, called |-> FALSE, result |-> FALSE]
\* No request has been answered yet.
NoResponse == [op |-> "none", status_code |-> 0]

\* Empty "roles" and "user_organizations" collections, no request under way.
EmptyCollections ==
    /\ organizations = OrganizationIds
    /\ roles = EmptyDict
    /\ user_organizations = EmptyDict
    /\ next_role_oid = 1
    /\ next_mapping_oid = 1
    /\ resp = NoResponse
    /\ in_flight = {}
    /\ allowed_before = {}

\* The same in a database that seed_data.py has not been run on: no index.
EmptyStores ==
    /\ EmptyCollections
    /\ unique_index = FALSE

\* ---- has_permission over its arguments
InitPermissions ==
    /\ EmptyStores
    /\ users = [u \in UserIds |-> [is_superuser |-> FALSE]]
    /\ hp \in [role : HpRoleInputs, permission : HpPermissionInputs,
               called : {FALSE}, result : {FALSE}]

NextPermissions == Call_has_permission

SpecPermissions == InitPermissions /\ [][NextPermissions]_vars

\* ---- the guards over the memberships the user-organization routes build
\* Allow-lists of the guarded requests.
GuardAllowLists == {require_super_admin, {"cfo", "general_partner"}}
\* Role names of the assign and update requests (None: an explicit null).
GuardRoleNames == {None, "viewer", "super_admin", "cfo"}

\* Assignments of an existing user to an existing organization by role name, and
\* one request each that names no user, no organization, no role.
GuardAssignRequests ==
    [user_id : UserIds, organization_id : OrganizationIds,
     role_id : {None}, role : GuardRoleNames, is_primary : {FALSE}]
    \cup {[user_id |-> "u9", organization_id |-> "o1", role_id |-> None,
           role |-> "viewer", is_primary |-> FALSE],
          [user_id |-> "u1", organization_id |-> "o9", role_id |-> None,
           role |-> "viewer", is_primary |-> FALSE],
          [user_id |-> "u2", organization_id |-> "o2", role_id |-> "r9",
           role |-> "viewer", is_primary |-> FALSE]}

GuardUpdateRequests ==
    {[role |-> r] : r \in GuardRoleNames} \cup {[role_id |-> "r9"]}

\* u1 is a platform admin or not; u2 is not (the two users are interchangeable).
InitGuards ==
    /\ EmptyStores
    /\ users \in {f \in [UserIds -> [is_superuser : BOOLEAN]] : ~f["u2"].is_superuser}
    /\ hp = NoCall

NextGuards ==
    \/ \E mapping \in GuardAssignRequests : assign_user_to_organization(mapping)
    \/ \E mapping_id \in DOMAIN user_organizations \cup {"m9"},
          mapping_update \in GuardUpdateRequests :
           update_user_organization_role(mapping_id, mapping_update)
    \/ \E mapping_id \in DOMAIN user_organizations \cup {"m9"} :
           remove_user_from_organization(mapping_id)
    \/ \E user_id \in UserIds, organization_id \in OrganizationIds :
           remove_user_from_organization_by_ids(user_id, organization_id)
    \/ \E allowed_roles \in GuardAllowLists, current_user \in DOMAIN users :
           CallRoleChecker(allowed_roles, current_user)
    \/ \E allowed_roles \in GuardAllowLists, organization_id \in OrganizationIds,
          current_user \in DOMAIN users :
           CallOrganizationRoleChecker(allowed_roles, organization_id, current_user)

SpecGuards == InitGuards /\ [][NextGuards]_vars

\* ---- the role routes over the Role Store
RoleCreateRequests ==
    [name : {"admin", "custom"}, display_name : {"Custom"}, description : {None},
     permissions : {None}, is_system : {FALSE}, is_active : {TRUE}]

RoleUpdateRequests ==
    {[name |-> n] : n \in {"admin", "", None}}
    \cup {[display_name |-> "Renamed"]}

InitRoles ==
    /\ EmptyStores
    /\ users = [u \in UserIds |-> [is_superuser |-> FALSE]]
    /\ hp = NoCall

\* The seeding loop needs no more ids than MaxRoleOid leaves.
SeedFits == next_role_oid + Len(SeedMissing(roles)) - 1 <= MaxRoleOid

NextRoles ==
    \/ SeedFits /\ seed_default_roles
    \/ \E role \in RoleCreateRequests : create_role(role)
    \/ \E role_id \in DOMAIN roles \cup {"r9"}, role_update \in RoleUpdateRequests :
           update_role(role_id, role_update)
    \/ \E role_id \in DOMAIN roles \cup {"r9"} : delete_role(role_id)

SpecRoles == InitRoles /\ [][NextRoles]_vars

\* ---- roles in use: the role routes and the memberships that reference roles
\* A custom role, and a role the request itself marks as a system role.
RoleUseCreateRequests ==
    {[name |-> "custom", display_name |-> "Custom", description |-> None,
      permissions |-> None, is_system |-> FALSE, is_active |-> TRUE],
     [name |-> "locked", display_name |-> "Locked", description |-> None,
      permissions |-> None, is_system |-> TRUE, is_active |-> TRUE]}

\* Assignments by the id of a role of the store ("viewer" is the default of the
\* role field).
RoleUseAssignRequests ==
    [user_id : UserIds, organization_id : OrganizationIds,
     role_id : DOMAIN roles \cup {"r9"}, role : {"viewer"}, is_primary : {FALSE}]

InitRoleUse ==
    /\ EmptyStores
    /\ users = [u \in UserIds |-> [is_superuser |-> FALSE]]
    /\ hp = NoCall

NextRoleUse ==
    \/ \E role \in RoleUseCreateRequests : create_role(role)
    \/ \E role_id \in DOMAIN roles \cup {"r9"} : delete_role(role_id)
    \/ \E mapping \in RoleUseAssignRequests : assign_user_to_organization(mapping)
    \/ \E mapping_id \in DOMAIN user_organizations, role_id \in DOMAIN roles :
           update_user_organization_role(mapping_id, [role_id |-> role_id])
    \/ \E mapping_id \in DOMAIN user_organizations \cup {"m9"} :
           remove_user_from_organization(mapping_id)
    \/ \E user_id \in UserIds, organization_id \in OrganizationIds :
           remove_user_from_organization_by_ids(user_id, organization_id)

SpecRoleUse == InitRoleUse /\ [][NextRoleUse]_vars

\* ---- seeding over a store that create_role and update_role have written to
SeedCreateRequests ==
    {[name |-> "custom", display_name |-> "Custom", description |-> None,
      permissions |-> "permissions:custom", is_system |-> FALSE, is_active |-> TRUE]}

\* Renaming to the name of a default role.
SeedUpdateRequests == {[name |-> "admin"]}

InitSeed ==
    /\ EmptyStores
    /\ users = [u \in UserIds |-> [is_superuser |-> FALSE]]
    /\ hp = NoCall

\* A seeding run starts while an id is left and then runs to its end.
NextSeed ==
    \/ next_role_oid <= MaxRoleOid /\ seed_default_roles
    \/ \E role \in SeedCreateRequests : create_role(role)
    \/ \E role_id \in DOMAIN roles, role_update \in SeedUpdateRequests :
           update_role(role_id, role_update)
    \/ \E role_id \in DOMAIN roles : delete_role(role_id)

SpecSeed == InitSeed /\ [][NextSeed]_vars

\* ---- assign requests that overlap, with and without the unique index
\* Assignments of one user, by the default role name.
OverlapAssignRequests ==
    [user_id : {"u1"}, organization_id : OrganizationIds,
     role_id : {None}, role : {"viewer"}, is_primary : {FALSE}]

OverlapUpdateRequests == {[role |-> "cfo"]}

InitOverlap ==
    /\ EmptyCollections
    /\ unique_index \in BOOLEAN
    /\ users = [u \in UserIds |-> [is_superuser |-> FALSE]]
    /\ hp = NoCall

NextOverlap ==
    \/ \E mapping \in OverlapAssignRequests : assign_user_to_organization_checks(mapping)
    \/ \E r \in in_flight : assign_user_to_organization_create(r)
    \/ \E mapping_id \in DOMAIN user_organizations,
          mapping_update \in OverlapUpdateRequests :
           update_user_organization_role(mapping_id, mapping_update)
    \/ \E mapping_id \in DOMAIN user_organizations :
           remove_user_from_organization(mapping_id)
    \/ \E organization_id \in OrganizationIds :
           remove_user_from_organization_by_ids("u1", organization_id)

SpecOverlap == InitOverlap /\ [][NextOverlap]_vars

\* ---- the Role Resolver over memberships that the routes did not write
\* Role names in the two cases a request can give them.
ResolverCreateRequests ==
    [name : {"custom", "Custom"}, display_name : {"Custom Role"}, description : {None},
     permissions : {None}, is_system : {FALSE}, is_active : {TRUE}]

\* A membership as seed_data.py writes them (a role name, no role_id), or with
\* the id of the first role or of a role that is gone.
ResolverStoredMappings ==
    [user_id : {"u1"}, organization_id : {"o1"}, role_id : {None, "r1", "r9"},
     role : {None, "cfo", "custom", "Custom"}, is_primary : {FALSE}]

InitResolver ==
    /\ organizations = OrganizationIds
    /\ roles = EmptyDict
    /\ user_organizations \in [{"m0"} -> ResolverStoredMappings]
    /\ next_role_oid = 1
    /\ next_mapping_oid = 1
    /\ resp = NoResponse
    /\ unique_index = FALSE
    /\ in_flight = {}
    /\ allowed_before = {}
    /\ users = [u \in UserIds |-> [is_superuser |-> FALSE]]
    /\ hp = NoCall

NextResolver ==
    \/ \E role \in ResolverCreateRequests : create_role(role)
    \/ \E role_id \in DOMAIN roles : delete_role(role_id)
    \/ get_all_mappings

SpecResolver == InitResolver /\ [][NextResolver]_vars

\* ---- guard and resolver while reads of the store fail
\* The collection whose reads fail during a request.
FailingCollections == {"none", "user_organizations", "roles"}

InitReadFailure ==
    /\ organizations = OrganizationIds
    /\ roles = EmptyDict
    /\ user_organizations \in [{"m0"} -> ResolverStoredMappings]
    /\ next_role_oid = 1
    /\ next_mapping_oid = 1
    /\ resp = NoResponse
    /\ unique_index = FALSE
    /\ in_flight = {}
    /\ allowed_before = {}
    /\ users \in {f \in [UserIds -> [is_superuser : BOOLEAN]] : ~f["u1"].is_superuser}
    /\ hp = NoCall

NextReadFailure ==
    \/ \E role \in ResolverCreateRequests : create_role(role)
    \/ \E fails \in FailingCollections : get_all_mappings_store_failing(fails)
    \/ \E allowed_roles \in GuardAllowLists, organization_id \in OrganizationIds,
          current_user \in DOMAIN users, fails \in BOOLEAN :
           CallOrganizationRoleChecker_store_failing(allowed_roles, organization_id,
                                                    current_user, fails)

SpecReadFailure == InitReadFailure /\ [][NextReadFailure]_vars

\* ---- delete_role overlapping with requests that name the role
DeleteRaceCreateRequests ==
    {[name |-> "custom", display_name |-> "Custom", description |-> None,
      permissions |-> None, is_system |-> FALSE, is_active |-> TRUE]}

\* Assignments of one user by the id of a role of the store.
DeleteRaceAssignRequests ==
    [user_id : {"u1"}, organization_id : OrganizationIds,
     role_id : DOMAIN roles, role : {"viewer"}, is_primary : {FALSE}]

InitDeleteRace ==
    /\ EmptyStores
    /\ users = [u \in UserIds |-> [is_superuser |-> FALSE]]
    /\ hp = NoCall

NextDeleteRace ==
    \/ \E role \in DeleteRaceCreateRequests : create_role(role)
    \/ \E role_id \in DOMAIN roles \cup {"r9"} : delete_role_checks(role_id)
    \/ \E r \in in_flight : delete_role_delete(r)
    \/ \E mapping \in DeleteRaceAssignRequests : assign_user_to_organization(mapping)
    \/ \E mapping_id \in DOMAIN user_organizations, role_id \in DOMAIN roles :
           update_user_organization_role(mapping_id, [role_id |-> role_id])
    \/ \E mapping_id \in DOMAIN user_organizations :
           remove_user_from_organization(mapping_id)

SpecDeleteRace == InitDeleteRace /\ [][NextDeleteRace]_vars

\* ---- the organization guard before and after a membership goes or changes
FreshAllowLists == {{"cfo", "general_partner"}}

\* Assignments of one user, by role names inside and outside the list.
FreshAssignRequests ==
    [user_id : {"u1"}, organization_id : OrganizationIds,
     role_id : {None}, role : {"cfo", "viewer"}, is_primary : {FALSE}]

FreshUpdateRequests == {[role |-> "viewer"], [role |-> "cfo"]}

InitFresh ==
    /\ EmptyStores
    /\ users = [u \in UserIds |-> [is_superuser |-> FALSE]]
    /\ hp = NoCall

NextFresh ==
    \/ \E mapping \in FreshAssignRequests : assign_user_to_organization(mapping)
    \/ \E mapping_id \in DOMAIN user_organizations,
          mapping_update \in FreshUpdateRequests :
           update_user_organization_role(mapping_id, mapping_update)
    \/ \E mapping_id \in DOMAIN user_organizations :
           remove_user_from_organization(mapping_id)
    \/ \E organization_id \in OrganizationIds :
           remove_user_from_organization_by_ids("u1", organization_id)
    \/ \E allowed_roles \in FreshAllowLists, organization_id \in OrganizationIds :
           CallOrganizationRoleChecker_logged(allowed_roles, organization_id, "u1")

SpecFresh == InitFresh /\ [][NextFresh]_vars

\* ---- the organization guard on memberships whose role is renamed
RenameCreateRequests ==
    {[name |-> "custom", display_name |-> "Custom", description |-> None,
      permissions |-> None, is_system |-> FALSE, is_active |-> TRUE]}

\* Renaming to a name of the allow-list.
RenameUpdateRequests == {[name |-> "cfo"]}

RenameAssignRequests ==
    [user_id : {"u1"}, organization_id : OrganizationIds,
     role_id : DOMAIN roles, role : {"viewer"}, is_primary : {FALSE}]

InitRename ==
    /\ EmptyStores
    /\ users = [u \in UserIds |-> [is_superuser |-> FALSE]]
    /\ hp = NoCall

NextRename ==
    \/ \E role \in RenameCreateRequests : create_role(role)
    \/ \E role_id \in DOMAIN roles, role_update \in RenameUpdateRequests :
           update_role(role_id, role_update)
    \/ \E mapping \in RenameAssignRequests : assign_user_to_organization(mapping)
    \/ \E allowed_roles \in GuardAllowLists, organization_id \in OrganizationIds :
           CallOrganizationRoleChecker(allowed_roles, organization_id, "u1")

SpecRename == InitRename /\ [][NextRename]_vars

\* ---- memberships that refer to roles by id and by name, one request at a time
\* Assignments by the id of a role (of the store, or of none), by a role name,
\* and one request each for a user and an organization that do not exist.
RoleRefAssignRequests ==
    [user_id : {"u1"}, organization_id : OrganizationIds,
     role_id : DOMAIN roles \cup {"r9"}, role : {"viewer"}, is_primary : {FALSE}]
    \cup [user_id : {"u1"}, organization_id : OrganizationIds,
          role_id : {None}, role : {"Custom", "cfo"}, is_primary : {FALSE}]
    \cup {[user_id |-> "u9", organization_id |-> "o1", role_id |-> None,
           role |-> "cfo", is_primary |-> FALSE],
          [user_id |-> "u1", organization_id |-> "o9", role_id |-> None,
           role |-> "cfo", is_primary |-> FALSE]}

\* Updates by the id of a role (of the store, or of none) and by a role name.
RoleRefUpdateRequests ==
    {[role_id |-> r] : r \in DOMAIN roles \cup {"r9"}}
    \cup {[role |-> n] : n \in {"Custom", "cfo"}}

InitRoleRef ==
    /\ EmptyStores
    /\ users = [u \in UserIds |-> [is_superuser |-> FALSE]]
    /\ hp = NoCall

NextRoleRef ==
    \/ \E role \in ResolverCreateRequests : create_role(role)
    \/ \E role_id \in DOMAIN roles : delete_role(role_id)
    \/ \E mapping \in RoleRefAssignRequests : assign_user_to_organization(mapping)
    \/ \E mapping_id \in DOMAIN user_organizations,
          mapping_update \in RoleRefUpdateRequests :
           update_user_organization_role(mapping_id, mapping_update)
    \/ \E mapping_id \in DOMAIN user_organizations :
           remove_user_from_organization(mapping_id)

SpecRoleRef == InitRoleRef /\ [][NextRoleRef]_vars

\* ---- every role and membership route, one request at a time
\* Assignments by the id of a role of the store, or by a role name.
IntegrityAssignRequests ==
    [user_id : {"u1"}, organization_id : OrganizationIds,
     role_id : DOMAIN roles \cup {None}, role : {"cfo"}, is_primary : {FALSE}]

IntegrityUpdateRequests ==
    {[role_id |-> r] : r \in DOMAIN roles} \cup {[role |-> "cfo"]}

InitIntegrity ==
    /\ EmptyStores
    /\ users = [u \in UserIds |-> [is_superuser |-> FALSE]]
    /\ hp = NoCall

NextIntegrity ==
    \/ \E role \in RenameCreateRequests : create_role(role)
    \/ \E role_id \in DOMAIN roles, role_update \in RenameUpdateRequests :
           update_role(role_id, role_update)
    \/ \E role_id \in DOMAIN roles : delete_role(role_id)
    \/ \E mapping \in IntegrityAssignRequests : assign_user_to_organization(mapping)
    \/ \E mapping_id \in DOMAIN user_organizations,
          mapping_update \in IntegrityUpdateRequests :
           update_user_organization_role(mapping_id, mapping_update)
    \/ \E mapping_id \in DOMAIN user_organizations :
           remove_user_from_organization(mapping_id)
    \/ \E organization_id \in OrganizationIds :
           remove_user_from_organization_by_ids("u1", organization_id)

SpecIntegrity == InitIntegrity /\ [][NextIntegrity]_vars

(***************************************************************************)
(* Claims                                                                  *)
(***************************************************************************)
\* Allow-lists the guard claims range over: the pre-defined checkers' lists and
\* other lists of RoleEnum values, the empty one included.
ClaimAllowLists ==
    { require_super_admin, require_cfo_or_above, require_fund_admin,
      require_accountant_or_above, require_auditor_access,
      {}, {"viewer"}, {"cfo"}, {"cfo", "general_partner"}, {"admin", "viewer"} }

\* Organization ids the guard claims range over ("o9" is no organization).
ClaimOrganizationIds == OrganizationIds \cup {"o9"}

\* The users that are not platform admins.
OrdinaryUsers == {u \in DOMAIN users : ~users[u].is_superuser}

\* The role of membership `id` equals the super-admin key or is in the allow-list.
RoleQualifies(id, allowed_roles) ==
    \/ user_organizations[id].role = SUPER_ADMIN
    \/ user_organizations[id].role \in allowed_roles

\* Membership `id` has neither role_id nor role name set.
NoRole(id) ==
    /\ Falsy(user_organizations[id].role_id)
    /\ Falsy(user_organizations[id].role)

\* C1: a user whose is_superuser flag is true passes RoleChecker and
\* OrganizationRoleChecker for every allow-list and every organization id,
\* whatever the Membership Store holds, also with no membership at all.
C1_SuperuserPassesBothGuards ==
    \A u \in DOMAIN users : users[u].is_superuser =>
        \A allowed_roles \in ClaimAllowLists :
            /\ RoleChecker(allowed_roles, u) = Allowed
            /\ \A o \in ClaimOrganizationIds : \A m \in FirstMapping(u, o) :
                   OrganizationRoleChecker(allowed_roles, u, m) = Allowed

\* A superuser without any membership has just passed the organization guard
\* while another user holds memberships.
C1_Witness ==
    /\ resp.op = "OrganizationRoleChecker"
    /\ resp.status_code = 200
    /\ users[resp.current_user].is_superuser
    /\ UserOrgs(resp.current_user) = {}
    /\ user_organizations # EmptyDict

\* C2: for a user who is not platform admin, OrganizationRoleChecker answers "no
\* access to this organization" exactly when there is no membership for (user,
\* organization), and the different answer "no permission" exactly when there is
\* one whose role is neither super_admin nor in the allow-list.
C2_DenialsDistinguished ==
    /\ NoOrganizationAccess # InsufficientPermission
    /\ \A u \in OrdinaryUsers, o \in ClaimOrganizationIds,
          allowed_roles \in ClaimAllowLists :
           \A m \in FirstMapping(u, o) :
               LET outcome == OrganizationRoleChecker(allowed_roles, u, m) IN
               /\ outcome = NoOrganizationAccess <=> FirstMapping(u, o) = {None}
               /\ outcome = InsufficientPermission <=>
                      /\ FirstMapping(u, o) # {None}
                      /\ ~RoleQualifies(m, allowed_roles)

\* The guard has just answered "no access" to a user for one organization, and
\* the same user holds a membership elsewhere that the same allow-list turns down
\* as "no permission".
C2_Witness ==
    /\ resp.op = "OrganizationRoleChecker"
    /\ resp.detail = NoOrganizationAccess.detail
    /\ resp.current_user \in OrdinaryUsers
    /\ \E id \in UserOrgs(resp.current_user) :
           OrganizationRoleChecker(resp.allowed_roles, resp.current_user, id)
               = InsufficientPermission

\* C3: for a user who is not platform admin, OrganizationRoleChecker for
\* organization O allows if and only if the user's membership in O exists and its
\* role is super_admin or in the allow-list; roles held in other organizations
\* do not count.
C3_OrgGuardAllowsIffRoleInOrg ==
    \A u \in OrdinaryUsers, o \in ClaimOrganizationIds,
       allowed_roles \in ClaimAllowLists :
        \A m \in FirstMapping(u, o) :
            OrganizationRoleChecker(allowed_roles, u, m) = Allowed
                <=> (m # None /\ RoleQualifies(m, allowed_roles))

\* A user who is super_admin in another organization only has just been turned
\* down by the guard of an organization they are no member of.
C3_Witness ==
    /\ resp.op = "OrganizationRoleChecker"
    /\ resp.status_code = 403
    /\ resp.current_user \in OrdinaryUsers
    /\ FirstMapping(resp.current_user, resp.organization_id) = {None}
    /\ \E id \in UserOrgs(resp.current_user) :
           user_organizations[id].role = SUPER_ADMIN

\* C4: for a user who is not platform admin, RoleChecker allows if and only if
\* one of the user's memberships, in any organization, has the role super_admin
\* or a role of the allow-list; otherwise, also with no membership, it answers
\* "no permission".
C4_GlobalGuardAllowsIffAnyRole ==
    \A u \in OrdinaryUsers, allowed_roles \in ClaimAllowLists :
        LET outcome == RoleChecker(allowed_roles, u)
            qualifies == \E id \in UserOrgs(u) : RoleQualifies(id, allowed_roles)
        IN  /\ outcome = Allowed <=> qualifies
            /\ outcome = InsufficientPermission <=> ~qualifies

\* RoleChecker has just turned down a user who holds a membership, and would
\* turn down the other user, who holds none.
C4_Witness ==
    /\ resp.op = "RoleChecker"
    /\ resp.status_code = 403
    /\ resp.current_user \in OrdinaryUsers
    /\ UserOrgs(resp.current_user) # {}
    /\ \E u \in OrdinaryUsers : UserOrgs(u) = {}

\* C5: a user who is not platform admin and whose only membership is super_admin
\* in one organization passes RoleChecker with any allow-list, also one without
\* super_admin, though the user is no member of the other organizations.
C5_SuperAdminElsewherePassesGlobalGuard ==
    \A u \in OrdinaryUsers :
        (\E id \in UserOrgs(u) :
            /\ UserOrgs(u) = {id}
            /\ user_organizations[id].role = SUPER_ADMIN)
        => \A allowed_roles \in ClaimAllowLists : RoleChecker(allowed_roles, u) = Allowed

\* Such a user has just passed RoleChecker under an allow-list without
\* super_admin, being no member of organization o2.
C5_Witness ==
    /\ resp.op = "RoleChecker"
    /\ resp.status_code = 200
    /\ SUPER_ADMIN \notin resp.allowed_roles
    /\ resp.current_user \in OrdinaryUsers
    /\ \E id \in UserOrgs(resp.current_user) :
           /\ UserOrgs(resp.current_user) = {id}
           /\ user_organizations[id].role = SUPER_ADMIN
           /\ user_organizations[id].organization_id = "o1"
    /\ FirstMapping(resp.current_user, "o2") = {None}

\* C6: a membership with neither role_id nor role name set gives nothing: for a
\* user who is not platform admin, RoleChecker allows only on a membership that
\* has a role, OrganizationRoleChecker never allows on one without, and
\* enrich_mapping_with_role returns such a membership as it is, no field added.
C6_NoRoleNoCapabilities ==
    /\ \A u \in OrdinaryUsers, allowed_roles \in ClaimAllowLists :
        /\ RoleChecker(allowed_roles, u) = Allowed =>
               \E id \in UserOrgs(u) : ~NoRole(id) /\ RoleQualifies(id, allowed_roles)
        /\ \A o \in ClaimOrganizationIds : \A m \in FirstMapping(u, o) :
               (m # None /\ NoRole(m)) =>
                   OrganizationRoleChecker(allowed_roles, u, m) # Allowed
    /\ \A id \in DOMAIN user_organizations : NoRole(id) =>
           \A found \in ResolverLookup(user_organizations[id]) :
               enrich_mapping_with_role(WithId(id, user_organizations[id]), found)
                   = WithId(id, user_organizations[id])

\* RoleChecker has just turned down a user whose only membership has no role.
C6_Witness ==
    /\ resp.op = "RoleChecker"
    /\ resp.status_code = 403
    /\ resp.current_user \in OrdinaryUsers
    /\ \E id \in UserOrgs(resp.current_user) :
           UserOrgs(resp.current_user) = {id} /\ NoRole(id)

\* C7: has_permission(role, permission) is true if and only if role is a key of
\* ROLE_PERMISSIONS whose map has the permission set to true; for any other role
\* (strings outside RoleEnum, None, enum members without an entry) and any other
\* permission name it is false, and it always returns a boolean.
C7_HasPermissionIsMatrixOrFalse ==
    hp.called =>
        /\ hp.result \in BOOLEAN
        /\ hp.result <=>
               /\ hp.role \in DOMAIN ROLE_PERMISSIONS
               /\ hp.permission \in DOMAIN ROLE_PERMISSIONS[hp.role]
               /\ ROLE_PERMISSIONS[hp.role][hp.permission]

\* has_permission has answered false for the enum member "admin", which has no
\* matrix entry, and a permission the matrix knows.
C7_Witness ==
    /\ hp.called
    /\ hp.role = "admin"
    /\ hp.permission = "can_view_all_data"
    /\ hp.result = FALSE

\* C8: a create_role request whose name is the name of a role in the store is
\* answered with the error "Role with this name already exists" and leaves the
\* Role Store as it was.
C8_DuplicateCreateRejected ==
    [][\A role \in RoleCreateRequests :
          (get_by_field(roles, "name", role.name) # {} /\ create_role(role)) =>
              /\ resp'.status_code = 400
              /\ resp'.detail = "Role with this name already exists"
              /\ roles' = roles]_vars

\* A second create_role for "custom" has just been refused; the store holds the
\* one custom role of that name.
C8_Witness ==
    /\ resp.op = "create_role"
    /\ resp.status_code = 400
    /\ \E id \in DOMAIN roles :
           /\ get_by_field(roles, "name", "custom") = {id}
           /\ ~roles[id].is_system

\* C9: no two roles of the Role Store have the same name, in any state reached
\* by seed_default_roles, create_role, update_role and delete_role requests.
C9_RoleNamesUnique ==
    \A a, b \in DOMAIN roles : a # b => roles[a].name # roles[b].name

\* C10: a role that has is_system = true stays in the store with its name
\* unchanged, whatever update_role or delete_role request comes next.
C10_SystemRoleNameFrozen ==
    [][\A id \in DOMAIN roles : roles[id].is_system =>
          /\ id \in DOMAIN roles'
          /\ roles'[id].name = roles[id].name]_vars

\* C11: on a role with is_system = true, an update_role request that gives a
\* name is refused with an error and changes no field of the role, and one that
\* gives only other fields succeeds and sets exactly those.
C11_SystemRoleUpdate ==
    [][\A id \in DOMAIN roles, role_update \in RoleUpdateRequests :
          (roles[id].is_system /\ update_role(id, role_update)) =>
              IF DictGet(role_update, "name", None) # None
              THEN /\ resp'.status_code = 400
                   /\ roles' = roles
              ELSE /\ resp'.status_code = 200
                   /\ \A k \in DOMAIN roles[id] :
                          roles'[id][k] = IF k \in DOMAIN role_update /\ NotNone(k, role_update[k])
                                          THEN role_update[k]
                                          ELSE roles[id][k]]_vars

\* The memberships whose role_id is `role_id`.
MembershipsOfRole(role_id) ==
    {m \in DOMAIN user_organizations : user_organizations[m].role_id = role_id}

\* C12: delete_role on a role that is not a system role is refused with the
\* in-use error carrying the count n, the role staying in the store, whenever
\* n > 0 memberships have its id as role_id; with no such membership (all have
\* been removed) it succeeds and the role is gone.  On a role with is_system =
\* true it is always refused.
C12_DeleteRoleInUse ==
    [][\A role_id \in DOMAIN roles :
          delete_role(role_id) =>
              LET n == Cardinality(MembershipsOfRole(role_id)) IN
              IF roles[role_id].is_system
              THEN /\ resp'.status_code = 400
                   /\ resp'.detail = "Cannot delete system roles"
                   /\ roles' = roles
              ELSE IF n > 0
              THEN /\ resp'.status_code = 400
                   /\ resp'.detail = "Cannot delete role - it is assigned to n user(s)"
                   /\ resp'.n = n
                   /\ roles' = roles
              ELSE /\ resp'.status_code = 204
                   /\ role_id \notin DOMAIN roles'
                   /\ user_organizations' = user_organizations]_vars

\* delete_role has just been refused with count 2: a custom role of the store is
\* the role_id of two memberships.
C12_Witness ==
    /\ resp.op = "delete_role"
    /\ resp.status_code = 400
    /\ "n" \in DOMAIN resp
    /\ resp.n = 2
    /\ \E role_id \in DOMAIN roles :
           /\ ~roles[role_id].is_system
           /\ Cardinality(MembershipsOfRole(role_id)) = 2

\* The names of the default roles.
DefaultRoleNames == {DEFAULT_ROLES[i].name : i \in 1..Len(DEFAULT_ROLES)}

\* C13: a seed_default_roles run leaves every role that was in the store as it
\* was, creates a role only under a default name that no role had, and leaves
\* exactly one role for each default name in the store.
C13_SeedIdempotent ==
    [][seed_default_roles =>
          /\ \A id \in DOMAIN roles : id \in DOMAIN roles' /\ roles'[id] = roles[id]
          /\ \A id \in DOMAIN roles' \ DOMAIN roles :
                 /\ roles'[id].name \in DefaultRoleNames
                 /\ get_by_field(roles, "name", roles'[id].name) = {}
          /\ \A name \in DefaultRoleNames :
                 Cardinality(get_by_field(roles', "name", name)) = 1]_vars

\* C14: in every state reached by assign (requests that overlap included),
\* update and remove requests, no two memberships of the Membership Store have
\* the same (user_id, organization_id).
C14_OneMembershipPerPair ==
    \A a, b \in DOMAIN user_organizations :
        a # b => \/ user_organizations[a].user_id # user_organizations[b].user_id
                 \/ user_organizations[a].organization_id
                        # user_organizations[b].organization_id

\* Membership `id` is a legacy one: a role name and no role_id.
Legacy(id) ==
    /\ Falsy(user_organizations[id].role_id)
    /\ ~Falsy(user_organizations[id].role)

\* The roles whose name is `role_name` up to letter case.
RolesNamedUpToCase(role_name) ==
    {r \in DOMAIN roles : lower(roles[r].name) = lower(role_name)}

\* What the resolver can return for membership `id`.
Resolved(id) ==
    {enrich_mapping_with_role(WithId(id, user_organizations[id]), found) :
        found \in ResolverLookup(user_organizations[id])}

\* C15: for a legacy membership (role name, no role_id) whose role name no role
\* of the Role Store has, in any letter case, the resolver returns the
\* membership as it is: same role name, no role_id, no role_display_name.
C15_LegacyWithoutRoleUnchanged ==
    \A id \in DOMAIN user_organizations :
        (Legacy(id) /\ RolesNamedUpToCase(user_organizations[id].role) = {}) =>
            \A out \in Resolved(id) :
                /\ out.role = user_organizations[id].role
                /\ Falsy(out.role_id)
                /\ "role_display_name" \notin DOMAIN out
                /\ out = WithId(id, user_organizations[id])

\* GET /user-organizations/ has just returned the legacy membership of role
\* "cfo" as it is stored, while the Role Store holds roles of other names.
C15_Witness ==
    /\ resp.op = "get_all_mappings"
    /\ roles # EmptyDict
    /\ \E id \in DOMAIN user_organizations :
           /\ Legacy(id)
           /\ user_organizations[id].role = "cfo"
           /\ resp.body[id] = WithId(id, user_organizations[id])

\* C16: for a membership whose role_id is the id of a role R of the Role Store,
\* the resolver returns role_name = R.name, role_display_name = R.display_name
\* and the legacy role field set to R.name, whatever it held, the role_id kept.
C16_RoleIdResolvesAndOverwrites ==
    \A id \in DOMAIN user_organizations :
        LET role_id == user_organizations[id].role_id IN
        (~Falsy(role_id) /\ role_id \in DOMAIN roles) =>
            \A out \in Resolved(id) :
                /\ "role_name" \in DOMAIN out
                /\ "role_display_name" \in DOMAIN out
                /\ out.role_name = roles[role_id].name
                /\ out.role_display_name = roles[role_id].display_name
                /\ out.role = roles[role_id].name
                /\ out.role_id = role_id

\* GET /user-organizations/ has just returned a membership stored with the
\* legacy role "cfo" under the name of the role its role_id refers to.
C16_Witness ==
    /\ resp.op = "get_all_mappings"
    /\ \E id \in DOMAIN user_organizations :
           LET role_id == user_organizations[id].role_id IN
           /\ role_id \in DOMAIN roles
           /\ user_organizations[id].role = "cfo"
           /\ roles[role_id].name # "cfo"
           /\ resp.body[id].role = roles[role_id].name
           /\ resp.body[id].role_name = roles[role_id].name

\* C17: for a membership whose role_id is the id of no role of the Role Store,
\* the resolver returns the membership as it is: the stale role_id stays, the
\* legacy role field is untouched, and no role found by name takes its place.
C17_StaleRoleIdUnchanged ==
    \A id \in DOMAIN user_organizations :
        LET role_id == user_organizations[id].role_id IN
        (~Falsy(role_id) /\ role_id \notin DOMAIN roles) =>
            \A out \in Resolved(id) :
                /\ out.role_id = role_id
                /\ out.role = user_organizations[id].role
                /\ out = WithId(id, user_organizations[id])

\* GET /user-organizations/ has just returned a membership of stale role_id
\* as it is stored, while a role of the membership's role name exists.
C17_Witness ==
    /\ resp.op = "get_all_mappings"
    /\ \E id \in DOMAIN user_organizations :
           /\ ~Falsy(user_organizations[id].role_id)
           /\ user_organizations[id].role_id \notin DOMAIN roles
           /\ ~Falsy(user_organizations[id].role)
           /\ get_by_field(roles, "name", user_organizations[id].role) # {}
           /\ resp.body[id] = WithId(id, user_organizations[id])

\* C18: for a legacy membership (role name, no role_id), whenever a role of the
\* Role Store has the membership's role name up to letter case, in whatever
\* case create_role stored it, the resolver returns the membership with the
\* role_id and the role_display_name of such a role.
C18_LegacyLookupCaseInsensitive ==
    \A id \in DOMAIN user_organizations :
        (Legacy(id) /\ RolesNamedUpToCase(user_organizations[id].role) # {}) =>
            \A out \in Resolved(id) :
                /\ out.role_id \in RolesNamedUpToCase(user_organizations[id].role)
                /\ "role_display_name" \in DOMAIN out
                /\ out.role_display_name = roles[out.role_id].display_name

\* C19: a step in which RoleChecker or OrganizationRoleChecker is evaluated,
\* whether it allows or denies, leaves the Role Store, the Membership Store and
\* the user records as they were.
C19_GuardsWriteNothing ==
    [][(\/ \E allowed_roles \in GuardAllowLists, current_user \in DOMAIN users :
              CallRoleChecker(allowed_roles, current_user)
        \/ \E allowed_roles \in GuardAllowLists, organization_id \in OrganizationIds,
              current_user \in DOMAIN users :
              CallOrganizationRoleChecker(allowed_roles, organization_id, current_user))
       => /\ roles' = roles
          /\ user_organizations' = user_organizations
          /\ users' = users]_vars

\* RoleChecker has just let through, on a membership, a user who is not a
\* superuser; the stores hold what they held.
C19_Witness ==
    /\ resp.op = "RoleChecker"
    /\ resp.status_code = 200
    /\ ~users[resp.current_user].is_superuser
    /\ \E id \in UserOrgs(resp.current_user) :
           RoleQualifies(id, resp.allowed_roles)

\* C20: a request in which a store read made by a guard or by the Role Resolver
\* has failed ends as an error: it is never allowed, and never answered as if
\* the read had found nothing.
C20_FailedReadSurfaced ==
    ("failed_read" \in DOMAIN resp /\ resp.failed_read) =>
        resp.status_code = StoreError.status_code

\* C21: a step in which a protected operation changes the Role Store or the
\* Membership Store comes right after an allow decision of RoleChecker or
\* OrganizationRoleChecker: the last response before it is a guard's allow.
C21_MutationsBehindGuard ==
    [][(roles' # roles \/ user_organizations' # user_organizations) =>
          /\ resp.op \in {"RoleChecker", "OrganizationRoleChecker"}
          /\ resp.status_code = Allowed.status_code]_vars

\* C22: a role that a create_role request adds to the Role Store has is_system
\* = false, whatever the request says.
C22_CreatedRoleNotSystem ==
    [][\A role \in RoleUseCreateRequests :
          create_role(role) =>
              \A id \in DOMAIN roles' \ DOMAIN roles : ~roles'[id].is_system]_vars

\* C23: the in-use check and the deletion of delete_role are two steps: the
\* deletion of a delete_role request that has passed its checks removes the
\* role and answers 204 whatever memberships have come to name the role since,
\* so a membership assigned (or updated) in between is left with the role_id of
\* a role that is gone.
C23_DeleteNotAtomic ==
    [][\A r \in in_flight :
          (r.role_id \in DOMAIN roles /\ delete_role_delete(r)) =>
              /\ resp'.status_code = 204
              /\ r.role_id \notin DOMAIN roles'
              /\ user_organizations' = user_organizations]_vars

\* delete_role has just succeeded; a membership created or updated by a request
\* that named the role, and succeeded, has the id of the deleted role.
C23_Witness ==
    /\ resp.op = "delete_role"
    /\ resp.status_code = 204
    /\ \E id \in DOMAIN user_organizations :
           /\ ~Falsy(user_organizations[id].role_id)
           /\ user_organizations[id].role_id \notin DOMAIN roles
           /\ user_organizations[id].role = "custom"

\* C24: an OrganizationRoleChecker evaluation for a user who is not platform
\* admin allows exactly when the Membership Store, as it is at that moment, has
\* a membership of the user in the organization with a qualifying role: after
\* the membership is removed or its role leaves the allow-list it denies,
\* whatever it allowed before.
C24_GuardReadsCurrentStore ==
    [][\A allowed_roles \in FreshAllowLists, organization_id \in OrganizationIds,
          current_user \in OrdinaryUsers :
          CallOrganizationRoleChecker_logged(allowed_roles, organization_id, current_user) =>
              (resp'.status_code = Allowed.status_code <=>
                  \E m \in MappingsOfPair(current_user, organization_id) :
                      RoleQualifies(m, allowed_roles))]_vars

\* The guard has just turned down a request that it let through before: the
\* user's membership in the organization is gone or has a role outside the list.
C24_Witness ==
    /\ resp.op = "OrganizationRoleChecker"
    /\ resp.status_code = 403
    /\ [current_user |-> resp.current_user, organization_id |-> resp.organization_id,
        allowed_roles |-> resp.allowed_roles] \in allowed_before
    /\ \A m \in MappingsOfPair(resp.current_user, resp.organization_id) :
           ~RoleQualifies(m, resp.allowed_roles)

\* C25: for a membership whose role_id names a role of the Role Store, also one
\* renamed through update_role since the membership was written, the decision
\* of OrganizationRoleChecker is the one the role's current name gives, which
\* is the one computed from the role the Role Resolver returns.
C25_GuardDecidesOnResolvedRole ==
    \A u \in OrdinaryUsers, o \in OrganizationIds, allowed_roles \in GuardAllowLists :
        \A m \in FirstMapping(u, o) :
            (m # None /\ user_organizations[m].role_id \in DOMAIN roles) =>
                \A out \in Resolved(m) :
                    /\ out.role = roles[user_organizations[m].role_id].name
                    /\ OrganizationRoleChecker(allowed_roles, u, m) = Allowed
                           <=> (out.role = SUPER_ADMIN \/ out.role \in allowed_roles)

\* C26: the membership that an assign_user_to_organization request creates is
\* stored, given the id of a role of the store, with that role_id and the
\* role's name as role, whatever role name the request had; given only a role
\* name that a role of the store has (up to letter case), with the id of such a
\* role as role_id; given only a role name that no role has, with that name and
\* no role_id.
C26_AssignStoresBothForms ==
    [][\A mapping \in RoleRefAssignRequests :
          (assign_user_to_organization(mapping) /\ user_organizations' # user_organizations) =>
              \A id \in DOMAIN user_organizations' \ DOMAIN user_organizations :
                  LET doc == user_organizations'[id] IN
                  IF ~Falsy(mapping.role_id)
                  THEN /\ doc.role_id = mapping.role_id
                       /\ doc.role = roles[mapping.role_id].name
                  ELSE IF RolesNamedUpToCase(mapping.role) # {}
                  THEN /\ doc.role_id \in RolesNamedUpToCase(mapping.role)
                       /\ doc.role = mapping.role
                  ELSE /\ Falsy(doc.role_id)
                       /\ doc.role = mapping.role]_vars

\* C27: with one request served at a time, in every state reached by role
\* create, update and delete and membership assign, update and remove requests, every
\* stored membership that has a role_id has the id of a role of the Role Store
\* (role updates included: see SpecIntegrity).
C27_RoleIdsReferToRoles ==
    \A id \in DOMAIN user_organizations :
        ~Falsy(user_organizations[id].role_id) =>
            user_organizations[id].role_id \in DOMAIN roles

\* A membership refers by id to a role that a delete_role request has just been
\* refused for, and a role that was in the store is gone.
C27_Witness ==
    /\ resp.op = "delete_role"
    /\ resp.status_code = 400
    /\ \E id \in DOMAIN user_organizations :
           user_organizations[id].role_id \in DOMAIN roles
    /\ Cardinality(DOMAIN roles) < next_role_oid - 1

\* C28: after an update_user_organization_role request that gives a role name
\* and no role_id succeeds, the role in the response and the role of the
\* membership in whatever the resolver returns afterwards is the name given,
\* also when the membership had a role_id and no role has the name given.
C28_UpdateByNameSetsRole ==
    [][\A mapping_id \in DOMAIN user_organizations, mapping_update \in RoleRefUpdateRequests :
          (/\ "role_id" \notin DOMAIN mapping_update
           /\ update_user_organization_role(mapping_id, mapping_update)
           /\ resp'.status_code = 200) =>
              /\ resp'.body.role = mapping_update.role
              /\ \A found \in ResolverLookup(user_organizations'[mapping_id]) :
                     enrich_mapping_with_role(
                         WithId(mapping_id, user_organizations'[mapping_id]), found).role
                         = mapping_update.role]_vars

C30_DeletedRoleWasUnresolved ==
    [][\A role_id \in DOMAIN roles :
          (delete_role(role_id) /\ resp'.status_code = 204) =>
              \A id \in DOMAIN user_organizations :
                  role_id \notin ResolverLookup(user_organizations[id])]_vars

====
